---- MODULE Spec2Model ----
(***************************************************************************)
(* A model of src/MusePlotting.py: the real-time EEG loop that pulls one   *)
(* sample per iteration from an LSL inlet, rolls it into the raw buffers,  *)
(* band-pass filters it into the filtered buffers, appends a row to        *)
(* eeg_data_live.csv when save_interval seconds have passed, and redraws.  *)
(*                                                                         *)
(* Scalars (numpy float64) are records [nan, v]: np.nan is [nan |-> TRUE]  *)
(* and a reading x is [nan |-> FALSE, v |-> x]; readings are integers.     *)
(* Time is in whole seconds.  The environment (the LSL source, the wall    *)
(* clock, the file system, matplotlib and the user's Ctrl-C) is modelled   *)
(* by the variables env, clock, connected, sigPending and by the actions   *)
(* that fail.                                                              *)
(***************************************************************************)
EXTENDS Integers, Sequences, FiniteSets, TLC

\* ------------------------------------------------------------------ bounds

\* Capacity of every rolling buffer, in samples (256 * 5 in the script).
buffer_size == 3

\* Samples the source delivers in a run of Spec, GateSpec and FairSpec.
MaxTicks == 4
GateTicks == 5
FairTicks == 3

\* ------------------------------------------------------- program constants

fs == 256
order == 4
save_interval == 20

channels == <<"Channel 1", "Channel 2", "Channel 3", "Channel 4">>

BandNames == <<"Delta", "Theta", "Alpha", "Beta">>

BANDS == [Delta |-> <<1, 4>>, Theta |-> <<4, 8>>, Alpha |-> <<8, 13>>, Beta |-> <<13, 30>>]

ChannelSet == {channels[k] : k \in 1..Len(channels)}

BandSet == {BandNames[k] : k \in 1..Len(BandNames)}

\* ------------------------------------------------------------------ scalars

NaN == [nan |-> TRUE, v |-> 0]

Real(x) == [nan |-> FALSE, v |-> x]

\* np.full(n, value)
np_full(n, value) == [k \in 1..n |-> value]

\* np.roll(a, -1) as the bug "roll the other way" would have it: np.roll(a, 1).
np_roll_right(a) == [k \in 1..Len(a) |-> a[((k + Len(a) - 2) % Len(a)) + 1]]

\* np.roll(a, -1): every element moves one place to the left, the first to the end.
np_roll(a) == [k \in 1..Len(a) |-> a[(k % Len(a)) + 1]]

\* a[-1] = value
set_last(a, value) == [a EXCEPT ![Len(a)] = value]

\* a[-1]
last(a) == a[Len(a)]

\* A push that appends without evicting the oldest element (np.append).
push_grow(a, value) == Append(a, value)

\* The two statements of a push: buf = np.roll(buf, -1); buf[-1] = value.
push(a, value) == set_last(np_roll(a), value)

\* ------------------------------------------------------------------- filter

\* scipy.signal.butter(n, [low, high], btype='band'): 2*n + 1 numerator and
\* denominator coefficients.  low and high are the cut-offs over the Nyquist
\* frequency, kept as fractions <<numerator, denominator>>.  The numerator of a
\* Butterworth band-pass is gain * (1 - z^-2)^n and the gain grows with the
\* bandwidth; the coefficients are integer stand-ins of that shape (a[0] = 1,
\* feedback taps not zero), one pair per band.
butter(n, low, high) ==
    LET gain == high[1] - low[1]
    IN  [b |-> <<gain, 0, -4 * gain, 0, 6 * gain, 0, -4 * gain, 0, gain>>,
         a |-> <<1, -2, 1, 0, 0, 0, 0, 0, 0>>]

\* butter's check of its critical frequencies (scipy.signal.iirfilter): it raises
\* ValueError unless 0 < Wn < 1 for both, and unless Wn[0] < Wn[1] for a band.
butter_raises(low, high) ==
    ~ /\ 0 < low[1]  /\ low[1] < low[2]
      /\ 0 < high[1] /\ high[1] < high[2]
      /\ low[1] * high[2] < high[1] * low[2]

Sum9(f) == f[0] + f[1] + f[2] + f[3] + f[4] + f[5] + f[6] + f[7] + f[8]

\* scipy.signal.lfilter(b, a, x) with no zi: the direct-form difference equation
\*   a[0]*y[n] = b[0]*x[n] + ... + b[8]*x[n-8] - a[1]*y[n-1] - ... - a[8]*y[n-8]
\* started from rest (zero initial conditions) at the first element of x.
RECURSIVE lfilter_upto(_, _, _, _)
lfilter_upto(b, a, x, n) ==
    IF n = 0 THEN <<>>
    ELSE LET y == lfilter_upto(b, a, x, n - 1)
             ff == Sum9([k \in 0..8 |-> IF n - k >= 1 THEN b[k + 1] * x[n - k] ELSE 0])
             fb == Sum9([k \in 0..8 |-> IF k >= 1 /\ n - k >= 1 THEN a[k + 1] * y[n - k] ELSE 0])
         IN  Append(y, (ff - fb) \div a[1])

lfilter(b, a, x) == lfilter_upto(b, a, x, Len(x))

\* bandpass_filter(data, lowcut, highcut, fs, order): designs the filter and runs
\* it over data, from rest.
bandpass_filter(data, lowcut, highcut, rate, n) ==
    LET nyquist == rate \div 2
        low == <<lowcut, nyquist>>
        high == <<highcut, nyquist>>
        c == butter(n, low, high)
    IN  lfilter(c.b, c.a, data)

\* --------------------------------------------------------------- CSV rows

\* header = ["Timestamp"] + channels + [f"{band} - {ch}" for band in BANDS for ch in channels]
\* (a field is the tuple of the strings it is formatted from).
header ==
    <<<<"Timestamp">>>>
    \o [k \in 1..Len(channels) |-> <<channels[k]>>]
    \o [k \in 1..(Len(BandNames) * Len(channels)) |->
          <<BandNames[((k - 1) \div Len(channels)) + 1], " - ",
            channels[((k - 1) % Len(channels)) + 1]>>]

HeaderRow == [kind |-> "header", fields |-> header]

\* row = [timestamp] + sample, then for each band the newest filtered value of
\* every channel.
DataRow(ts, smp, fbuf) ==
    [kind |-> "data",
     fields |-> <<Real(ts)>>
                \o [k \in 1..Len(smp) |-> Real(smp[k])]
                \o [k \in 1..(Len(BandNames) * Len(channels)) |->
                      last(fbuf[BandNames[((k - 1) \div Len(channels)) + 1]]
                               [channels[((k - 1) % Len(channels)) + 1]])]]

\* -------------------------------------------------------------------- state

VARIABLES
    pc,                \* where the script is (see LoopPcs)
    i,                 \* index of the channel in the current for loop
    band,              \* index of the band in the current for loop
    sample,            \* the sample pulled in this iteration
    timestamp,         \* its LSL timestamp: the number of the sample in the stream
    raw_buffers,       \* channel -> rolling buffer
    filtered_buffers,  \* band -> channel -> rolling buffer
    last_save_time,    \* time.time() at start-up or after the last save
    csvfile,           \* the rows of eeg_data_live.csv
    clock,             \* the wall clock, seconds since start-up
    connected,         \* the LSL source is streaming
    sigPending,        \* SIGINT arrived while the script was blocked in the pull
    error,             \* the exception that ended the script, "" while none
    env,               \* what the source does in this run: samples, delays, length
    pulled,            \* history: the samples pulled so far
    attempts,          \* history: the evaluations of the save condition
    pushes,            \* history: how many values each buffer has received
    config,            \* the configured bands and buffer capacity
    objs,              \* which array object each buffer name is bound to
    sink               \* the array object and contents last handed to each plot line

vars ==
    <<pc, i, band, sample, timestamp, raw_buffers, filtered_buffers, last_save_time,
      csvfile, clock, connected, sigPending, error, env, pulled, attempts, pushes,
      config, objs, sink>>

\* The positions inside the try block's while loop (lines 70-116).
LoopPcs ==
    {"loop_top", "pulling", "raw", "filter", "save_check", "save_open",
     "save_header", "save_row", "save_reset", "pause"}

\* The pipeline states of the specification, read off the script's position.
State ==
    IF pc = "resolve" THEN "Idle"
    ELSE IF pc \in LoopPcs THEN "Running"
    ELSE "Stopped"

\* Readings a Muse headset streams: four EEG channels, with or without the AUX one.
Samples == {<<1, 2, 0, 1>>, <<2, 0, 1, 1, 3>>}

\* How long a write to the file may take, in seconds.
WriteDelays == {0, 1}

\* A file left by an earlier run, for open(..., 'a').
OldFile == <<HeaderRow, DataRow(0, <<0, 0, 0, 0>>, [bn \in BandSet |-> [c \in ChannelSet |-> <<Real(0)>>]])>>

\* The configuration the script is written with (lines 19 and 23-28).
ScriptConfig == [bands |-> BANDS, capacity |-> buffer_size]

\* Lines 49-50: the plot lines are created with plot([], []): no buffer is
\* handed to them before the first set_data.
NoData == [obj |-> -1, data |-> <<>>]

InitWith(profile, files, configs) ==
    /\ pc = "resolve"
    /\ i = 1
    /\ band = 1
    /\ sample = <<>>
    /\ timestamp = 0
    /\ raw_buffers = [c \in {} |-> <<>>]
    /\ filtered_buffers = [bn \in {} |-> <<>>]
    /\ last_save_time = 0
    /\ csvfile \in files
    /\ clock = 0
    /\ connected \in BOOLEAN
    /\ sigPending = FALSE
    /\ error = ""
    /\ env = profile
    /\ config \in configs
    /\ objs = [raw |-> [c \in ChannelSet |-> 0],
               filtered |-> [bn \in BandSet |-> [c \in ChannelSet |-> 0]]]
    /\ sink = [raw |-> [c \in ChannelSet |-> NoData],
               filtered |-> [bn \in BandSet |-> [c \in ChannelSet |-> NoData]]]
    /\ pulled = <<>>
    /\ attempts = <<>>
    /\ pushes = [raw |-> [c \in ChannelSet |-> 0],
                 filtered |-> [bn \in BandSet |-> [c \in ChannelSet |-> 0]]]

Init == InitWith([samples |-> Samples, delays |-> {0, 10}, length |-> MaxTicks], {<<>>, OldFile}, {ScriptConfig})

\* ---------------------------------------------------------------- exceptions

\* An exception other than KeyboardInterrupt leaves the try block: no except
\* clause matches it, the finally clause runs and the script ends.
\* KeyboardInterrupt is caught by line 118.  Either way the loop is left.
Raise(kind) ==
    /\ pc' = "unwinding"
    /\ error' = kind

\* A shutdown that forces a last flush when the save interval has elapsed.
UnwindWithFinalFlush ==
    /\ pc = "unwinding"
    /\ pc' = "exited"
    /\ csvfile' = IF clock - last_save_time >= save_interval
                     THEN Append(csvfile, DataRow(timestamp, sample, filtered_buffers))
                     ELSE csvfile
    /\ UNCHANGED <<i, band, sample, timestamp, raw_buffers, filtered_buffers,
                   last_save_time, clock, connected, sigPending, error,
                   env, pulled, attempts, pushes, config, objs, sink>>

\* Lines 118-122: print (KeyboardInterrupt only), plt.ioff(), plt.show().
Unwind ==
    /\ pc = "unwinding"
    /\ pc' = "exited"
    /\ UNCHANGED <<i, band, sample, timestamp, raw_buffers, filtered_buffers,
                   last_save_time, csvfile, clock, connected, sigPending, error,
                   env, pulled, attempts, pushes, config, objs, sink>>

\* ------------------------------------------------------------------ start-up

\* Start-up with the save timer set one interval back, so that the first
\* evaluation of the save condition is due.
ResolveFoundDueAtOnce ==
    /\ pc = "resolve"
    /\ connected
    /\ raw_buffers' = [c \in ChannelSet |-> np_full(config.capacity, NaN)]
    /\ filtered_buffers' = [bn \in BandSet |-> [c \in ChannelSet |-> np_full(config.capacity, NaN)]]
    /\ last_save_time' = clock - save_interval
    /\ pc' = "loop_top"
    /\ UNCHANGED <<i, band, sample, timestamp, csvfile, clock, connected, sigPending,
                   error, env, pulled, attempts, pushes, config, objs, sink>>

\* Lines 9-12 and 18-68: a stream is found; buffers are np.full(buffer_size, nan),
\* last_save_time = time.time().
\* np.full raises ValueError for a negative size (line 41, outside the try
\* block: the script ends there, the finally clause does not run).
ResolveFound ==
    /\ pc = "resolve"
    /\ connected
    /\ IF config.capacity < 0
          THEN /\ pc' = "exited"
               /\ error' = "ValueError"
               /\ UNCHANGED <<raw_buffers, filtered_buffers, last_save_time>>
          ELSE /\ raw_buffers' = [c \in ChannelSet |-> np_full(config.capacity, NaN)]
               /\ filtered_buffers' =
                     [bn \in BandSet |-> [c \in ChannelSet |-> np_full(config.capacity, NaN)]]
               /\ last_save_time' = clock
               /\ pc' = "loop_top"
               /\ UNCHANGED error
    /\ UNCHANGED <<i, band, sample, timestamp, csvfile, clock, connected, sigPending,
                   env, pulled, attempts, pushes, config, objs, sink>>

\* A start-up that goes on without a stream: the buffers are created and the
\* loop is entered although nothing was resolved.
ResolveNoneRunsAnyway ==
    /\ pc = "resolve"
    /\ ~connected
    /\ raw_buffers' = [c \in ChannelSet |-> np_full(config.capacity, NaN)]
    /\ filtered_buffers' = [bn \in BandSet |-> [c \in ChannelSet |-> np_full(config.capacity, NaN)]]
    /\ last_save_time' = clock
    /\ pc' = "loop_top"
    /\ UNCHANGED <<i, band, sample, timestamp, csvfile, clock, connected, sigPending,
                   error, env, pulled, attempts, pushes, config, objs, sink>>

\* Lines 13-15: no stream within the timeout; exit().
ResolveNone ==
    /\ pc = "resolve"
    /\ ~connected
    /\ pc' = "exited"
    /\ error' = "SystemExit"
    /\ UNCHANGED <<i, band, sample, timestamp, raw_buffers, filtered_buffers,
                   last_save_time, csvfile, clock, connected, sigPending, env,
                   pulled, attempts, pushes, config, objs, sink>>

\* ---------------------------------------------------------------------- pull

\* Lines 70-72: while True: enter inlet.pull_sample(), which blocks (no timeout).
\* The run is cut after env.length samples.
PullStart ==
    /\ pc = "loop_top"
    /\ Len(pulled) < env.length
    /\ pc' = "pulling"
    /\ UNCHANGED <<i, band, sample, timestamp, raw_buffers, filtered_buffers,
                   last_save_time, csvfile, clock, connected, sigPending, error,
                   env, pulled, attempts, pushes, config, objs, sink>>

\* Line 72 (and 75): the pull returns a sample after blocking for d seconds.
PullReturn ==
    /\ pc = "pulling"
    /\ connected
    /\ ~sigPending
    /\ \E s \in env.samples, d \in env.delays :
          /\ sample' = s
          /\ timestamp' = Len(pulled) + 1
          /\ pulled' = Append(pulled, s)
          /\ clock' = clock + d
    /\ pc' = "raw"
    /\ i' = 1
    /\ UNCHANGED <<band, raw_buffers, filtered_buffers, last_save_time, csvfile,
                   connected, sigPending, error, env, attempts, pushes, config, objs, sink>>

\* A pull that swallows the pending SIGINT: it returns its sample and the loop
\* goes on as if no signal had arrived.
PullSwallowsInterrupt ==
    /\ pc = "pulling"
    /\ connected
    /\ sigPending
    /\ sigPending' = FALSE
    /\ \E s \in env.samples, d \in env.delays :
          /\ sample' = s
          /\ timestamp' = Len(pulled) + 1
          /\ pulled' = Append(pulled, s)
          /\ clock' = clock + d
    /\ pc' = "raw"
    /\ i' = 1
    /\ UNCHANGED <<band, raw_buffers, filtered_buffers, last_save_time, csvfile,
                   connected, error, env, attempts, pushes, config, objs, sink>>

\* Line 72 with SIGINT pending: the blocking call returns when a sample arrives
\* and KeyboardInterrupt is raised before the sample is assigned.
PullInterrupted ==
    /\ pc = "pulling"
    /\ connected
    /\ sigPending
    /\ Raise("KeyboardInterrupt")
    /\ sigPending' = FALSE
    /\ UNCHANGED <<i, band, sample, timestamp, raw_buffers, filtered_buffers,
                   last_save_time, csvfile, clock, connected, env, pulled, attempts, pushes, config, objs, sink>>

\* ---------------------------------------------------------------- raw buffers

\* A push that shifts and stores inside the array the name is already bound to.
RawPushInPlace ==
    /\ raw_buffers' = [raw_buffers EXCEPT ![channels[i]] = push(@, Real(sample[i]))]
    /\ pushes' = [pushes EXCEPT !.raw[channels[i]] = @ + 1]
    /\ objs' = objs

\* Lines 78-80, one iteration: roll the channel's buffer and store sample[i].
\* np.roll returns a new array, the name is bound to it and the store goes there.
RawPush ==
    /\ raw_buffers' = [raw_buffers EXCEPT ![channels[i]] = push(@, Real(sample[i]))]
    /\ pushes' = [pushes EXCEPT !.raw[channels[i]] = @ + 1]
    /\ objs' = [objs EXCEPT !.raw[channels[i]] = @ + 1]

\* Line 83: raw_lines[i].set_data(..., raw_buffers[channel]) hands the array over.
RawSetData ==
    sink' = [sink EXCEPT !.raw[channels[i]] =
                [obj |-> objs'.raw[channels[i]], data |-> raw_buffers'[channels[i]]]]

\* Line 80 on a buffer of no elements: raw_buffers[ch][-1] raises IndexError.
RawIndexError == Len(raw_buffers[channels[i]]) = 0

\* Lines 78-84, one iteration of the for loop, the plot update included.
RawStep ==
    /\ pc = "raw"
    /\ IF RawIndexError
          THEN /\ Raise("IndexError")
               /\ UNCHANGED <<i, band, raw_buffers, pushes, objs, sink>>
          ELSE /\ RawPush
               /\ RawSetData
               /\ IF i < Len(channels)
                     THEN /\ i' = i + 1
                          /\ UNCHANGED <<pc, band>>
                     ELSE /\ pc' = "filter"
                          /\ i' = 1
                          /\ band' = 1
               /\ UNCHANGED error
    /\ UNCHANGED <<sample, timestamp, filtered_buffers, last_save_time, csvfile,
                   clock, connected, sigPending, env, pulled, attempts, config>>

\* Lines 83-84 raise (set_data or set_xlim fails) after the buffer was updated.
RawRenderFail ==
    /\ pc = "raw"
    /\ ~RawIndexError
    /\ RawPush
    /\ Raise("RenderError")
    /\ UNCHANGED <<i, band, sample, timestamp, filtered_buffers, last_save_time,
                   csvfile, clock, connected, sigPending, env, pulled, attempts, config, sink>>

\* ----------------------------------------------------------- filtered buffers

\* Line 89 for band bn and channel index k:
\* bandpass_filter([sample[k]], low, high, fs)[0], low and high from BANDS.items().
FilteredValue(bn, k) ==
    bandpass_filter(<<sample[k]>>, config.bands[bn][1], config.bands[bn][2], fs, order)[1]

\* Line 89 (lines 33-35 inside it): butter rejects the band's cut-offs.
FilterValueError(bn) ==
    butter_raises(<<config.bands[bn][1], fs \div 2>>, <<config.bands[bn][2], fs \div 2>>)

filtered_sample == FilteredValue(BandNames[band], i)

\* A push that stores the value in the band's buffer of every channel.
filter_push_band_wide(fbuf, bn, c, y) ==
    [fbuf EXCEPT ![bn] = [d \in DOMAIN @ |-> push(@[d], Real(y))]]

\* Lines 90-91 on the buffers fbuf: roll the (band, channel) buffer and store y.
filter_push(fbuf, bn, c, y) ==
    [fbuf EXCEPT ![bn][c] = push(@, Real(y))]

\* Lines 89-91, one (band, channel) pair.
FilterPush ==
    /\ filtered_buffers' =
          filter_push(filtered_buffers, BandNames[band], channels[i], filtered_sample)
    /\ pushes' = [pushes EXCEPT !.filtered[BandNames[band]][channels[i]] = @ + 1]
    /\ objs' = [objs EXCEPT !.filtered[BandNames[band]][channels[i]] = @ + 1]

\* Line 94: filtered_lines[band][i].set_data(..., filtered_buffers[band][channel]).
FilterSetData ==
    sink' = [sink EXCEPT !.filtered[BandNames[band]][channels[i]] =
                [obj |-> objs'.filtered[BandNames[band]][channels[i]],
                 data |-> filtered_buffers'[BandNames[band]][channels[i]]]]

\* A band loop that ends one band early: the last band's buffers get nothing.
FilterStepStopsEarly ==
    /\ pc = "filter"
    /\ FilterPush
    /\ FilterSetData
    /\ IF i < Len(channels)
          THEN /\ i' = i + 1
               /\ UNCHANGED <<pc, band>>
          ELSE IF band < Len(BandNames) - 1
          THEN /\ i' = 1
               /\ band' = band + 1
               /\ UNCHANGED pc
          ELSE /\ pc' = "save_check"
               /\ i' = 1
               /\ band' = 1
    /\ UNCHANGED <<sample, timestamp, raw_buffers, last_save_time, csvfile, clock,
                   connected, sigPending, error, env, pulled, attempts, config>>

\* Lines 87-95, one iteration of the inner for loop, the plot update included.
FilterStep ==
    /\ pc = "filter"
    /\ IF FilterValueError(BandNames[band])
          THEN /\ Raise("ValueError")
               /\ UNCHANGED <<i, band, filtered_buffers, pushes, objs, sink>>
          ELSE /\ FilterPush
               /\ FilterSetData
               /\ IF i < Len(channels)
                     THEN /\ i' = i + 1
                          /\ UNCHANGED <<pc, band>>
                     ELSE IF band < Len(BandNames)
                     THEN /\ i' = 1
                          /\ band' = band + 1
                          /\ UNCHANGED pc
                     ELSE /\ pc' = "save_check"
                          /\ i' = 1
                          /\ band' = 1
               /\ UNCHANGED error
    /\ UNCHANGED <<sample, timestamp, raw_buffers, last_save_time, csvfile, clock,
                   connected, sigPending, env, pulled, attempts, config>>

\* Lines 94-95 raise after the buffer was updated.
FilterRenderFail ==
    /\ pc = "filter"
    /\ ~FilterValueError(BandNames[band])
    /\ FilterPush
    /\ Raise("RenderError")
    /\ UNCHANGED <<i, band, sample, timestamp, raw_buffers, last_save_time, csvfile,
                   clock, connected, sigPending, env, pulled, attempts, config, sink>>

\* ------------------------------------------------------------------ CSV save

\* The save condition with > for >=.
SaveDueStrict == clock - last_save_time > save_interval

\* Line 98: time.time() - last_save_time >= save_interval
SaveDue == clock - last_save_time >= save_interval

\* Line 98: the condition is evaluated; the block is entered or skipped.
SaveCheck ==
    /\ pc = "save_check"
    /\ attempts' = Append(attempts, [t |-> clock, since |-> last_save_time, due |-> SaveDue])
    /\ pc' = IF SaveDue THEN "save_open" ELSE "pause"
    /\ UNCHANGED <<i, band, sample, timestamp, raw_buffers, filtered_buffers,
                   last_save_time, csvfile, clock, connected, sigPending, error,
                   env, pulled, pushes, config, objs, sink>>

\* Lines 99-101: open('eeg_data_live.csv', 'a'), csv.writer, header list.
SaveOpen ==
    /\ pc = "save_open"
    /\ pc' = "save_header"
    /\ UNCHANGED <<i, band, sample, timestamp, raw_buffers, filtered_buffers,
                   last_save_time, csvfile, clock, connected, sigPending, error,
                   env, pulled, attempts, pushes, config, objs, sink>>

\* Line 99 raises OSError (the file cannot be opened).
SaveOpenFail ==
    /\ pc = "save_open"
    /\ Raise("OSError")
    /\ UNCHANGED <<i, band, sample, timestamp, raw_buffers, filtered_buffers,
                   last_save_time, csvfile, clock, connected, sigPending, env,
                   pulled, attempts, pushes, config, objs, sink>>

\* A save that writes the header at every flush, whatever the file holds.
SaveHeaderAlways ==
    /\ pc = "save_header"
    /\ csvfile' = Append(csvfile, HeaderRow)
    /\ pc' = "save_row"
    /\ UNCHANGED <<i, band, sample, timestamp, raw_buffers, filtered_buffers,
                   last_save_time, clock, connected, sigPending, error, env,
                   pulled, attempts, pushes, config, objs, sink>>

\* Lines 104-105: the header is written when csvfile.tell() == 0.
SaveHeader ==
    /\ pc = "save_header"
    /\ csvfile' = IF Len(csvfile) = 0 THEN Append(csvfile, HeaderRow) ELSE csvfile
    /\ pc' = "save_row"
    /\ UNCHANGED <<i, band, sample, timestamp, raw_buffers, filtered_buffers,
                   last_save_time, clock, connected, sigPending, error, env,
                   pulled, attempts, pushes, config, objs, sink>>

\* Lines 108-112: the row is built and written, the with block closes the file;
\* the write takes w seconds.
SaveRow ==
    /\ pc = "save_row"
    /\ csvfile' = Append(csvfile, DataRow(timestamp, sample, filtered_buffers))
    /\ \E w \in WriteDelays : clock' = clock + w
    /\ pc' = "save_reset"
    /\ UNCHANGED <<i, band, sample, timestamp, raw_buffers, filtered_buffers,
                   last_save_time, connected, sigPending, error, env, pulled,
                   attempts, pushes, config, objs, sink>>

\* Line 111 raises OSError (the write fails); the with block closes the file.
SaveRowFail ==
    /\ pc = "save_row"
    /\ Raise("OSError")
    /\ UNCHANGED <<i, band, sample, timestamp, raw_buffers, filtered_buffers,
                   last_save_time, csvfile, clock, connected, sigPending, env,
                   pulled, attempts, pushes, config, objs, sink>>

\* Line 113: last_save_time = time.time()
SaveReset ==
    /\ pc = "save_reset"
    /\ last_save_time' = clock
    /\ pc' = "pause"
    /\ UNCHANGED <<i, band, sample, timestamp, raw_buffers, filtered_buffers,
                   csvfile, clock, connected, sigPending, error, env, pulled,
                   attempts, pushes, config, objs, sink>>

\* ---------------------------------------------------------------------- redraw

\* Line 116: plt.pause(0.01), then back to while True.
Pause ==
    /\ pc = "pause"
    /\ pc' = "loop_top"
    /\ UNCHANGED <<i, band, sample, timestamp, raw_buffers, filtered_buffers,
                   last_save_time, csvfile, clock, connected, sigPending, error,
                   env, pulled, attempts, pushes, config, objs, sink>>

\* Line 116 raises (the figure cannot be drawn).
PauseFail ==
    /\ pc = "pause"
    /\ Raise("RenderError")
    /\ UNCHANGED <<i, band, sample, timestamp, raw_buffers, filtered_buffers,
                   last_save_time, csvfile, clock, connected, sigPending, env,
                   pulled, attempts, pushes, config, objs, sink>>

\* ----------------------------------------------------------------- environment

\* The user presses Ctrl-C.  Inside the blocking pull the signal stays pending
\* until the call returns; anywhere else in the loop KeyboardInterrupt is raised
\* before the next statement.
Interrupt ==
    /\ pc \in LoopPcs
    /\ ~sigPending
    /\ IF pc = "pulling"
          THEN /\ sigPending' = TRUE
               /\ UNCHANGED <<pc, error>>
          ELSE /\ Raise("KeyboardInterrupt")
               /\ UNCHANGED sigPending
    /\ UNCHANGED <<i, band, sample, timestamp, raw_buffers, filtered_buffers,
                   last_save_time, csvfile, clock, connected, env, pulled, attempts, pushes, config, objs, sink>>

\* The source stops streaming (headset off, BlueMuse closed).  The script can
\* see it only in the pull, so the loss is taken there.
SourceLost ==
    /\ pc = "pulling"
    /\ connected
    /\ connected' = FALSE
    /\ UNCHANGED <<pc, i, band, sample, timestamp, raw_buffers, filtered_buffers,
                   last_save_time, csvfile, clock, sigPending, error, env, pulled,
                   attempts, pushes, config, objs, sink>>

\* ------------------------------------------------------------- specifications

\* The steps of the script itself.
Program ==
    \/ ResolveFound
    \/ ResolveNone
    \/ PullStart
    \/ PullReturn
    \/ PullInterrupted
    \/ RawStep
    \/ FilterStep
    \/ SaveCheck
    \/ SaveOpen
    \/ SaveHeader
    \/ SaveRow
    \/ SaveReset
    \/ Pause
    \/ Unwind

\* The steps in which a collaborator fails or the environment acts.
Environment ==
    \/ RawRenderFail
    \/ FilterRenderFail
    \/ SaveOpenFail
    \/ SaveRowFail
    \/ PauseFail
    \/ Interrupt
    \/ SourceLost

Next == Program \/ Environment

Spec == Init /\ [][Next]_vars

\* The persistence gate under a clock that can reach 0, 5, 19, 20 and 25 s.
GateInit == InitWith([samples |-> {<<1, 2, 0, 1>>}, delays |-> {0, 1, 5, 14}, length |-> GateTicks], {<<>>}, {ScriptConfig})

GateSpec == GateInit /\ [][Next]_vars

\* The script keeps running: whenever it has a step to take, it takes one.
FairInit == InitWith([samples |-> {<<1, 2, 0, 1>>}, delays |-> {0, 10}, length |-> FairTicks], {<<>>}, {ScriptConfig})

FairSpec == FairInit /\ [][Next]_vars /\ WF_vars(Program)

\* Configurations other than the script's own: a band with low >= high, a
\* cut-off that is not positive, a high cut-off at the Nyquist frequency, a
\* buffer of no elements and a negative buffer size.
BadConfigs ==
    {[bands |-> [BANDS EXCEPT !.Theta = <<10, 5>>], capacity |-> buffer_size],
     [bands |-> [BANDS EXCEPT !.Alpha = <<8, 8>>], capacity |-> buffer_size],
     [bands |-> [BANDS EXCEPT !.Delta = <<0, 4>>], capacity |-> buffer_size],
     [bands |-> [BANDS EXCEPT !.Beta = <<13, fs \div 2>>], capacity |-> buffer_size],
     [bands |-> BANDS, capacity |-> 0],
     [bands |-> BANDS, capacity |-> -1]}

\* The script started with its own or with another configuration.
ConfigInit ==
    InitWith([samples |-> {<<1, 2, 0, 1>>}, delays |-> {0, 10}, length |-> FairTicks], {<<>>},
             {ScriptConfig} \cup BadConfigs)

ConfigSpec == ConfigInit /\ [][Next]_vars

\* ---------------------------------------------------------------- properties

Min(x, y) == IF x <= y THEN x ELSE y

\* The data rows of the file that carry timestamp ts.
RowsOf(ts) == {k \in 1..Len(csvfile) : csvfile[k].kind = "data" /\ csvfile[k].fields[1] = Real(ts)}

\* Whether window w is what a fresh window holds after n pushes, the m-th of
\* them being val(m): sentinels, then the last min(n, C) values, oldest first.
IsWindowAfter(w, n, val(_)) ==
    /\ DOMAIN w = 1..buffer_size
    /\ \A j \in 1..buffer_size :
          w[j] = IF j <= buffer_size - Min(n, buffer_size) THEN NaN
                 ELSE Real(val(n - buffer_size + j))

\* C1: once the buffers exist, every raw buffer and every (band, channel)
\* filtered buffer has exactly buffer_size elements, whatever was pushed.
C1_LengthIsCapacity ==
    /\ pc \in LoopPcs => DOMAIN raw_buffers = ChannelSet /\ DOMAIN filtered_buffers = BandSet
    /\ \A c \in DOMAIN raw_buffers : Len(raw_buffers[c]) = buffer_size
    /\ \A bn \in DOMAIN filtered_buffers :
          /\ DOMAIN filtered_buffers[bn] = ChannelSet
          /\ \A c \in ChannelSet : Len(filtered_buffers[bn][c]) = buffer_size

\* C1 witness: more samples than a buffer holds were pushed into every buffer.
C1_Witness ==
    /\ pc = "pause"
    /\ Len(pulled) > buffer_size
    /\ \A c \in ChannelSet : pushes.raw[c] = Len(pulled)
    /\ \A bn \in BandSet : \A c \in ChannelSet : pushes.filtered[bn][c] = Len(pulled)

\* Every reading a sample of any run can carry.
Readings == 0..3

\* The output of bandpass_filter for a one-element input, per band and reading.
OneShot ==
    [bn \in BandSet |-> [x \in Readings |->
        bandpass_filter(<<x>>, BANDS[bn][1], BANDS[bn][2], fs, order)[1]]]

\* C2: after n pushes a raw buffer is buffer_size - min(n, buffer_size) sentinels
\* followed by the last min(n, buffer_size) readings of its channel in the order
\* they were pulled, and a filtered buffer is the same over the values pushed
\* into it.
C2_FifoContents ==
    \A k \in 1..Len(channels) :
        LET c == channels[k]
        IN  /\ c \in DOMAIN raw_buffers =>
                  IsWindowAfter(raw_buffers[c], pushes.raw[c], LAMBDA m : pulled[m][k])
            /\ \A bn \in DOMAIN filtered_buffers :
                  IsWindowAfter(filtered_buffers[bn][c], pushes.filtered[bn][c],
                      LAMBDA m : OneShot[bn][pulled[m][k]])

\* C2 witness: one buffer still has a leading sentinel after a push while
\* another has already evicted a reading, and the readings pulled differ.
C2_Witness ==
    /\ pc = "raw"
    /\ pushes.raw[channels[1]] > buffer_size
    /\ pushes.raw[channels[1]] = pushes.raw[channels[4]] + 1
    /\ raw_buffers[channels[1]][1] /= raw_buffers[channels[1]][buffer_size]

\* C3: for every (band, channel) pair the values pushed into the filtered buffer
\* are the outputs of one causal pass of the band's filter over the whole input
\* sequence of the channel (the filter's memory is carried from sample to sample).
C3_FilterKeepsMemory ==
    \A k \in 1..Len(channels) : \A bn \in DOMAIN filtered_buffers :
        LET n == pushes.filtered[bn][channels[k]]
            y == bandpass_filter([m \in 1..n |-> pulled[m][k]], BANDS[bn][1], BANDS[bn][2], fs, order)
        IN  IsWindowAfter(filtered_buffers[bn][channels[k]], n, LAMBDA m : y[m])

\* Whether the k-th evaluation of the save condition found the interval elapsed.
WasDue(k) == attempts[k].t - attempts[k].since >= save_interval

\* The persistence step of iteration k is over (the loop went on).
GateDone(k) == k < Len(attempts) \/ (k = Len(attempts) /\ pc \in {"pause", "loop_top", "pulling"})

\* C4: in every iteration a row is written if and only if
\* time.time() - last_save_time >= save_interval held when the condition was
\* evaluated; when it did not hold, nothing is written, last_save_time keeps its
\* value and no error is raised by the persistence step.
C4_WriteIffDue ==
    /\ \A k \in 1..Len(attempts) :
          /\ RowsOf(k) /= {} => WasDue(k)
          /\ GateDone(k) /\ WasDue(k) => Cardinality(RowsOf(k)) = 1
          /\ ~WasDue(k) /\ k < Len(attempts) => attempts[k + 1].since = attempts[k].since
          /\ ~WasDue(k) /\ k = Len(attempts) => last_save_time = attempts[k].since
    /\ pc \in {"save_open", "save_header", "save_row", "save_reset"} =>
          Len(attempts) = Len(pulled) /\ WasDue(Len(attempts))
    /\ error = "OSError" => Len(attempts) = Len(pulled) /\ WasDue(Len(attempts))

\* C4 witness: an iteration that was not due wrote nothing and a later one that
\* was due wrote its row.
C4_Witness ==
    /\ pc = "pause"
    /\ Len(attempts) >= 2
    /\ ~WasDue(1)
    /\ RowsOf(1) = {}
    /\ WasDue(Len(attempts))
    /\ RowsOf(Len(attempts)) /= {}

\* The times of the first five evaluations of the save condition.
FiveAttempts == Len(attempts) >= 5 /\ [k \in 1..5 |-> attempts[k].t] = <<0, 5, 19, 20, 25>>

\* The evaluations among the first five after which a row was written.
FlushedAmongFive == {attempts[k].t : k \in {j \in 1..5 : RowsOf(j) /= {}}}

\* C5 as stated: the first attempt is due at once; with save_interval = 20 and
\* attempts at t = 0, 5, 19, 20, 25 the gate flushes exactly at t = 0 and t = 20.
C5_FlushAtStart == FiveAttempts => FlushedAmongFive = {0, 20}

\* C5 amended: last_save_time starts at the start-up time, so the first attempt
\* is not due; with attempts at t = 0, 5, 19, 20, 25 the gate flushes exactly at
\* t = 20.
C5_FlushAtInterval == FiveAttempts => FlushedAmongFive = {20}

\* C5 witness: the five attempts were made at t = 0, 5, 19, 20 and 25.
C5_Witness == FiveAttempts /\ pc = "pause"

\* C6: when the write to the file fails during a due flush, last_save_time is
\* not advanced and the loop goes on, so that the flush is retried on the next
\* due iteration with the row of that iteration.
C6_FailedFlushIsRetried ==
    [][(pc \in {"save_open", "save_row"} /\ error' = "OSError") =>
          (last_save_time' = last_save_time /\ pc' \in LoopPcs)]_vars

\* C7: a failed write to the file is not fatal: in every state after it the
\* pipeline is Running.
C7_PersistenceFailureNotFatal == error = "OSError" => State = "Running"

\* C8: a failing plot update or redraw is swallowed: in every state after it the
\* pipeline is Running.
C8_RenderFailureSwallowed == error = "RenderError" => State = "Running"

\* C9: while Running, once the source has stopped streaming the pipeline
\* eventually is Stopped with a source-lost error.
C9_SourceLossStops ==
    (State = "Running" /\ ~connected) ~> (State = "Stopped" /\ error = "SourceLostError")

\* C10: once KeyboardInterrupt has been raised no step pulls a sample or
\* returns to the loop, and after a SIGINT (pending in the pull, or raised) the
\* pipeline eventually is Stopped unless the source stops streaming.
C10_InterruptStops ==
    /\ [][error = "KeyboardInterrupt" => (pc' \notin LoopPcs /\ pulled' = pulled)]_vars
    /\ (sigPending \/ error = "KeyboardInterrupt") ~> (State = "Stopped" \/ ~connected)

\* C10 witness: SIGINT arrived while the script was blocked in a pull of a
\* streaming source, after at least one full iteration.
C10_Witness == sigPending /\ connected /\ pc = "pulling" /\ Len(pulled) >= 1

\* C11: when KeyboardInterrupt is raised while a flush is in progress (the file
\* is open: before the header write, between the header and the row, or at the
\* row write), the row of that iteration is in the file when the loop is left.
C11_InFlightFlushFinished ==
    [][(pc \in {"save_header", "save_row"} /\ error' = "KeyboardInterrupt") =>
          RowsOf(timestamp)' /= {}]_vars

\* C12: once the loop has been left nothing more happens to the pipeline: it
\* stays Stopped, no sample is pulled, no buffer changes and no row is written,
\* not even a last flush when the save interval has elapsed.
C12_StoppedIsTerminal ==
    [][State = "Stopped" =>
          /\ State' = "Stopped"
          /\ pulled' = pulled
          /\ pushes' = pushes
          /\ raw_buffers' = raw_buffers
          /\ filtered_buffers' = filtered_buffers
          /\ csvfile' = csvfile]_vars

\* C12 witness: the script has ended after Ctrl-C with the save interval elapsed
\* and samples processed.
C12_Witness ==
    /\ pc = "exited"
    /\ error = "KeyboardInterrupt"
    /\ Len(pulled) >= 1
    /\ clock - last_save_time >= save_interval

\* C13: the loop is entered only with a stream: when none is found the script
\* exits at once, and then no sample was pulled, no buffer exists or was pushed
\* to, the save condition was never evaluated and the file is as it was found.
C13_NoStreamNoRun ==
    /\ (pc = "loop_top" /\ Len(pulled) = 0) => connected
    /\ error = "SystemExit" =>
          /\ State = "Stopped"
          /\ ~connected
          /\ pulled = <<>>
          /\ attempts = <<>>
          /\ DOMAIN raw_buffers = {}
          /\ DOMAIN filtered_buffers = {}
          /\ \A c \in ChannelSet : pushes.raw[c] = 0
          /\ \A bn \in BandSet : \A c \in ChannelSet : pushes.filtered[bn][c] = 0
          /\ (Len(csvfile) = 0 \/ csvfile = OldFile)

\* C13 witness: the script has exited because no stream was found.
C13_Witness == pc = "exited" /\ error = "SystemExit" /\ ~connected

\* C15: the header is written only into an empty file and so at most once and
\* before any data row; every other write appends exactly one data row and
\* leaves the rows already there as they are.
C15_HeaderOnce ==
    /\ [](Len(csvfile) > 0 =>
            /\ csvfile[1].kind = "header"
            /\ \A k \in 2..Len(csvfile) : csvfile[k].kind = "data")
    /\ [][csvfile' /= csvfile =>
            /\ Len(csvfile') = Len(csvfile) + 1
            /\ \A k \in 1..Len(csvfile) : csvfile'[k] = csvfile[k]
            /\ csvfile'[Len(csvfile')].kind = IF Len(csvfile) = 0 THEN "header" ELSE "data"]_vars

\* C15 witness: a flush has appended one row to the file an earlier run left.
C15_Witness ==
    /\ pc = "pause"
    /\ Len(csvfile) = 3
    /\ csvfile[2].fields[1] = Real(0)
    /\ csvfile[3].fields[1] = Real(timestamp)

\* C16: every data row has 1 + N + B*N fields, as many as the header: the
\* timestamp, the N raw readings, then per band the N filtered values, whatever
\* the number of readings the sample carries.
C16_RowShape ==
    \A k \in 1..Len(csvfile) :
        csvfile[k].kind = "data" =>
            /\ Len(csvfile[k].fields) = 1 + Len(channels) + Len(BandNames) * Len(channels)
            /\ Len(csvfile[k].fields) = Len(header)

\* C17: after a successful flush last_save_time is the clock reading that was
\* compared with the interval in that iteration.
C17_TimerIsComparedReading ==
    (pc = "pause" /\ Len(attempts) >= 1 /\ Len(attempts) = Len(pulled) /\ WasDue(Len(attempts))) =>
        last_save_time = attempts[Len(attempts)].t

\* C20: whenever a pull is about to start or is under way, every raw buffer
\* and every (band, channel) filtered buffer has received exactly as many pushes
\* as samples were pulled.
C20_AllPushedBeforePull ==
    pc \in {"loop_top", "pulling"} =>
        /\ \A c \in ChannelSet : pushes.raw[c] = Len(pulled)
        /\ \A bn \in BandSet : \A c \in ChannelSet : pushes.filtered[bn][c] = Len(pulled)

\* C20 witness: a third pull is under way after two samples were processed.
C20_Witness == pc = "pulling" /\ Len(pulled) = 2 /\ pushes.filtered[BandNames[4]][channels[4]] = 2


\* The k-th (band, channel) pair of the band x channel loop, k in 1..B*N.
PairBand(k) == BandNames[((k - 1) \div Len(channels)) + 1]
PairChannel(k) == ((k - 1) % Len(channels)) + 1
PairCount == Len(BandNames) * Len(channels)

\* The filter-and-push step of pair k applied to the filtered buffers fb.
PairStep(fb, k) ==
    filter_push(fb, PairBand(k), channels[PairChannel(k)], FilteredValue(PairBand(k), PairChannel(k)))

RECURSIVE RunPairs(_, _)
RunPairs(fb, order_of_pairs) ==
    IF order_of_pairs = <<>> THEN fb
    ELSE RunPairs(PairStep(fb, Head(order_of_pairs)), Tail(order_of_pairs))

\* C18: within one tick the (band, channel) filter-and-push steps commute: any
\* two of them give the same filtered buffers in either order, the whole loop
\* gives the same buffers run forwards or backwards, and the step the script
\* takes for one pair changes that pair's buffer only, leaving every other
\* pair's buffer and all raw buffers as they were.
C18_PairStepsCommute ==
    /\ [](pc = "filter" /\ band = 1 /\ i = 1 /\ ~FilterValueError(BandNames[1]) =>
            /\ \A p, q \in 1..PairCount :
                  p < q => PairStep(PairStep(filtered_buffers, p), q)
                              = PairStep(PairStep(filtered_buffers, q), p)
            /\ RunPairs(filtered_buffers, [k \in 1..PairCount |-> k])
                  = RunPairs(filtered_buffers, [k \in 1..PairCount |-> PairCount + 1 - k]))
    /\ [][(pc = "filter" /\ pushes' /= pushes) =>
            /\ raw_buffers' = raw_buffers
            /\ \A bn \in BandSet : \A c \in ChannelSet :
                  (bn /= BandNames[band] \/ c /= channels[i]) =>
                      filtered_buffers'[bn][c] = filtered_buffers[bn][c]
            /\ filtered_buffers' =
                  PairStep(filtered_buffers, (band - 1) * Len(channels) + i)]_vars

\* C18 witness: the band x channel loop has run to its end for a second sample
\* that differs from the first, channel readings differing among themselves.
C18_Witness ==
    /\ pc = "save_check"
    /\ Len(pulled) = 2
    /\ pulled[1] /= pulled[2]
    /\ sample[1] /= sample[2]
    /\ pushes.filtered[BandNames[4]][channels[4]] = 2


\* C19: an array handed to a plot line is never changed afterwards: after any
\* step, a buffer name that is still bound to the array last handed to its plot
\* line holds the contents that array had when it was handed over.
C19_PublishedNeverMutated ==
    [][/\ \A c \in ChannelSet :
             objs'.raw[c] = sink.raw[c].obj => raw_buffers'[c] = sink.raw[c].data
       /\ \A bn \in BandSet : \A c \in ChannelSet :
             objs'.filtered[bn][c] = sink.filtered[bn][c].obj =>
                 filtered_buffers'[bn][c] = sink.filtered[bn][c].data]_vars

\* C19 witness: a later tick has pushed new readings into a buffer whose earlier
\* array had been handed to its plot line.
C19_Witness ==
    /\ pc = "filter"
    /\ Len(pulled) = 2
    /\ sink.raw[channels[1]].obj = 2
    /\ sink.raw[channels[1]].data = raw_buffers[channels[1]]
    /\ sink.filtered[BandNames[1]][channels[1]].obj = 1
    /\ sink.filtered[BandNames[1]][channels[1]].data = filtered_buffers[BandNames[1]][channels[1]]
    /\ raw_buffers[channels[1]][buffer_size - 1] /= raw_buffers[channels[1]][buffer_size]


\* A configuration the specification calls bad: a band with low >= high, a
\* bound <= 0 or high >= Nyquist, or a capacity <= 0.
IsBadConfig(cfg) ==
    \/ cfg.capacity <= 0
    \/ \E bn \in BandSet :
          \/ cfg.bands[bn][1] >= cfg.bands[bn][2]
          \/ cfg.bands[bn][1] <= 0
          \/ cfg.bands[bn][2] <= 0
          \/ 2 * cfg.bands[bn][2] >= fs

\* C14: a bad configuration is rejected at construction: the script never
\* enters its loop with one, so no sample is pulled and no buffer receives a
\* value before the error.
C14_BadConfigRejectedAtStart ==
    IsBadConfig(config) =>
        /\ State /= "Running"
        /\ pulled = <<>>
        /\ \A c \in ChannelSet : pushes.raw[c] = 0
        /\ \A bn \in BandSet : \A c \in ChannelSet : pushes.filtered[bn][c] = 0

====
